---- MODULE Spec2Model ----
(***************************************************************************)
(* Model of saturn_client/run.py: the batch dispatcher (batch,             *)
(* dispatch_thread, LocalRankManager), the run classifier                  *)
(* (categorize_runs, summarize_batch) and the batch splitter (split); and  *)
(* of the token refresh of saturn_client/core.py (SaturnSession).          *)
(***************************************************************************)
EXTENDS Integers, Sequences, FiniteSets, TLC

(***************************************************************************)
(* Bounds of the model.                                                    *)
(***************************************************************************)
MaxRuns == 3
MaxProcs == 2
MaxFaults == 1
MaxRequests == 2
MaxSends == 3

VARIABLES
    \* ---- batch(): the dispatcher and its executors
    input_dict, \* the batch descriptor: which keys it and its run dicts hold
    nruns,      \* len(input_dict["runs"]), then len(batch.runs)
    nprocs,     \* batch.nprocs
    mainpc,     \* position of the thread that called batch()
    mi,         \* loop index of the submit loop / of the fut.result() loop
    err,        \* run whose exception fut.result() re-raised (0: none)
    queue,      \* ThreadPoolExecutor work queue (FIFO of submitted runs)
    pc,         \* per run: position of its dispatch_thread call
    ranks,      \* LocalRankManager.ranks
    lock,       \* LocalRankManager.lock: 0 free, r held by run r's thread
    rank,       \* per run: local variable rank (-1: unassigned)
    proc,       \* per run: its subprocess (Popen) and the code it exits with
    exitcode,   \* per run: local variable exitcode
    exc,        \* per run: an exception is propagating out of the try block
    status,     \* per run: remote file {remote_output_path}/status_code
    synced,     \* per run: local_results_dir was synced to results/
    dispatched, \* per run: number of times dispatch_thread was called for it
    launched,   \* per run: number of subprocess.Popen calls made for it
    faults,     \* number of environment faults injected so far
    faulted,    \* per run: a fault was injected into its own dispatch_thread call
    \* ---- the run classifier
    bdict,      \* the batch dictionary read from the batch file
    store,      \* the remote status store: run directory -> its status_code file
    cpc,        \* position of the caller of summarize_batch / categorize_runs
    cruns,      \* the Run objects of the loaded Batch (annotated in place)
    res1,       \* what the first categorize_runs call returned
    res2,       \* what the second categorize_runs call returned
    summary,    \* what summarize_batch returned
    \* ---- the batch splitter
    spc,        \* position of the caller of split_cli
    sparams,    \* the arguments split() was called with
    files,      \* the local commands directory: file name -> content
    command,    \* recipe["spec"]["command"]
    sruns,      \* the Run objects of the Batch that split() loaded
    filtered,   \* to_execute after filtering, before the max_jobs cut
    selected,   \* to_execute after filtering and truncation
    written,    \* output_batch_files
    lookups,    \* number of categorize_runs calls (remote listings) split() made
    \* ---- SaturnSession
    hpc,        \* position of the caller of the session
    hreq,       \* the prepared request: URL, headers, how often it was sent
    hresp,      \* the response received last
    hset,       \* session.settings: the API token, a refresh token or none
    herr,       \* the exception the session call raised
    hn          \* number of requests made with the session

dvars == <<input_dict, nruns, nprocs, mainpc, mi, err, queue, pc, ranks, lock, rank, proc,
           exitcode, exc, status, synced, dispatched, launched, faults,
           faulted>>

cvars == <<bdict, store, cpc, cruns, res1, res2, summary>>

svars == <<spc, sparams, files, command, sruns, filtered, selected, written,
           lookups>>

hvars == <<hpc, hreq, hresp, hset, herr, hn>>

vars == <<dvars, cvars, svars, hvars>>

(***************************************************************************)
(* Text: a str/bytes value is a sequence of one-character strings.         *)
(***************************************************************************)
Digits == <<"0", "1", "2", "3", "4", "5", "6", "7", "8", "9">>

IsDigit(c) == \E d \in 1..10 : Digits[d] = c

DigitVal(c) == (CHOOSE d \in 1..10 : Digits[d] = c) - 1

IsSpace(c) == c \in {" ", "\n", "\t"}

\* str(n) for a non-negative int: decimal digits, most significant first
RECURSIVE NatToStr(_)
NatToStr(n) ==
    IF n < 10 THEN <<Digits[n + 1]>>
    ELSE NatToStr(n \div 10) \o <<Digits[(n % 10) + 1]>>

\* str(n) for an int
IntToStr(n) == IF n < 0 THEN <<"-">> \o NatToStr(0 - n) ELSE NatToStr(n)

\* Python values of the local variable exitcode
PyNone == [tag |-> "none", val |-> 0]
PyUnbound == [tag |-> "unbound", val |-> 0]
PyInt(n) == [tag |-> "int", val |-> n]

NoneStr == <<"N", "o", "n", "e">>

\* str(exitcode) as written by f.write(str(exitcode))
PyStrDropSign(v) ==
    IF v.tag = "int" THEN NatToStr(IF v.val < 0 THEN 0 - v.val ELSE v.val)
    ELSE NoneStr

PyStr(v) == IF v.tag = "int" THEN IntToStr(v.val) ELSE NoneStr

\* bytes.strip() / str.strip() as int() applies it to its argument
RECURSIVE LStrip(_)
LStrip(s) ==
    IF s # <<>> /\ IsSpace(Head(s)) THEN LStrip(Tail(s)) ELSE s

RECURSIVE RStrip(_)
RStrip(s) ==
    IF s # <<>> /\ IsSpace(s[Len(s)]) THEN RStrip(SubSeq(s, 1, Len(s) - 1))
    ELSE s

Strip(s) == RStrip(LStrip(s))

\* the digit groups of an int literal: digits, single underscores between them
DigitsOk(s) ==
    /\ s # <<>>
    /\ IsDigit(s[1])
    /\ IsDigit(s[Len(s)])
    /\ \A i \in 1..Len(s) : IsDigit(s[i]) \/ s[i] = "_"
    /\ \A i \in 1..(Len(s) - 1) : ~(s[i] = "_" /\ s[i + 1] = "_")

RECURSIVE DigitsVal(_, _)
DigitsVal(s, acc) ==
    IF s = <<>> THEN acc
    ELSE IF Head(s) = "_" THEN DigitsVal(Tail(s), acc)
    ELSE DigitsVal(Tail(s), 10 * acc + DigitVal(Head(s)))

\* int(content): [ok |-> FALSE] stands for ValueError
ParseInt(content) ==
    LET s == Strip(content)
        signed == s # <<>> /\ Head(s) \in {"-", "+"}
        body == IF signed THEN Tail(s) ELSE s
    IN  IF DigitsOk(body)
        THEN [ok |-> TRUE,
              val |-> IF signed /\ Head(s) = "-"
                      THEN 0 - DigitsVal(body, 0) ELSE DigitsVal(body, 0)]
        ELSE [ok |-> FALSE, val |-> 0]

\* a remote file: absent, or present with a content
NoFile == [exists |-> FALSE, content |-> <<>>]
File(c) == [exists |-> TRUE, content |-> c]

\* the members of a list, and how often a value occurs in it
Elems(seq) == {seq[k] : k \in 1..Len(seq)}

Occurrences(seq, x) == Cardinality({k \in 1..Len(seq) : seq[k] = x})

(***************************************************************************)
(* batch(): Batch.from_dict loads the descriptor into nruns runs, each     *)
(* with its own remote_output_path (join(root, str(idx))), and nprocs.     *)
(***************************************************************************)
Runs == 1..nruns

\* a batch descriptor with n run dicts: has the key "runs", has the key
\* "remote_output_path", and per run dict has the key "cmd" (no run dict
\* carries a remote_output_path of its own)
Descriptors(n) ==
    [has_runs : {TRUE}, has_root : BOOLEAN, has_cmd : [1..n -> BOOLEAN]]
        \cup (IF n = 0
              THEN [has_runs : {FALSE}, has_root : BOOLEAN, has_cmd : {<<>>}]
              ELSE {})

NoDescriptor == [has_runs |-> TRUE, has_root |-> TRUE, has_cmd |-> <<>>]

\* Batch.from_dict(input_dict) raises: input_dict["runs"] (KeyError); for
\* every run dict join(input_dict["remote_output_path"], str(idx)) (KeyError)
\* and Run.from_dict, cls(**rdict), without cmd (TypeError); at last
\* input_dict["remote_output_path"] (KeyError)
LoadRaisesLazy(d) == ~d.has_runs

LoadRaises(d) ==
    \/ ~d.has_runs
    \/ \E i \in DOMAIN d.has_cmd : ~d.has_root \/ ~d.has_cmd[i]
    \/ ~d.has_root

\* exit codes a subprocess may end with (negative: killed by a signal)
ExitCodes == {0, 1, -9}

\* rank: the SATURN_RUN_LOCAL_RANK of the subprocess's environment
NoProc == [st |-> "none", code |-> 0, rank |-> -1]

\* positions of a dispatch_thread call that occupy a worker thread
ActivePcs == {"acquire", "start", "drain", "release", "rsync", "write"}

TerminatedPcs == {"returned", "raised"}

\* worker threads of the pool that are running a work item
Busy == Cardinality({r \in Runs : pc[r] \in ActivePcs})

\* subprocesses started by this batch that have not exited
InFlight == {r \in Runs : proc[r].st = "running"}

\* ThreadPoolExecutor(max_workers): ValueError unless max_workers > 0
PoolRaises(n) == n <= 0

DInit ==
    /\ nruns \in 0..MaxRuns
    /\ input_dict \in Descriptors(nruns)
    /\ nprocs \in 0..MaxProcs
    /\ mainpc = "load"
    /\ mi = 1
    /\ err = 0
    /\ queue = <<>>
    /\ pc = [r \in Runs |-> "new"]
    /\ ranks = [i \in 1..nprocs |-> i - 1]
    /\ lock = 0
    /\ rank = [r \in Runs |-> -1]
    /\ proc = [r \in Runs |-> NoProc]
    /\ exitcode = [r \in Runs |-> PyUnbound]
    /\ exc = [r \in Runs |-> FALSE]
    /\ status = [r \in Runs |-> NoFile]
    /\ synced = [r \in Runs |-> "no"]
    /\ dispatched = [r \in Runs |-> 0]
    /\ launched = [r \in Runs |-> 0]
    /\ faults = 0
    /\ faulted = [r \in Runs |-> FALSE]

\* ---- the thread that called batch()

\* batch = Batch.from_dict(input_dict), rank_manager = LocalRankManager(nprocs)
\* and the pool is created; an exception of from_dict or of
\* ThreadPoolExecutor(nprocs) leaves batch() at once
Load ==
    /\ mainpc = "load"
    /\ mainpc' = IF LoadRaises(input_dict) \/ PoolRaises(nprocs)
                 THEN "load_raised" ELSE "submit"
    /\ UNCHANGED <<input_dict, nruns, nprocs, mi, err, queue, pc, ranks, lock,
                   rank, proc, exitcode, exc, status, synced, dispatched,
                   launched, faults, faulted>>

\* pool.submit(dispatch_thread, ...): one work item per run
SubmittedTwice(q, r) == Append(Append(q, r), r)

SubmittedFirst(q, r) == <<r>> \o q

Submitted(q, r) == Append(q, r)

Submit ==
    /\ mainpc = "submit"
    /\ mi <= nruns
    /\ queue' = Submitted(queue, mi)
    /\ pc' = [pc EXCEPT ![mi] = "queued"]
    /\ mi' = mi + 1
    /\ UNCHANGED <<input_dict, nruns, nprocs, mainpc, err, ranks, lock, rank, proc,
                   exitcode, exc, status, synced, dispatched, launched, faults, faulted>>

SubmitDone ==
    /\ mainpc = "submit"
    /\ mi > nruns
    /\ mainpc' = "wait"
    /\ mi' = 1
    /\ UNCHANGED <<input_dict, nruns, nprocs, err, queue, pc, ranks, lock, rank, proc,
                   exitcode, exc, status, synced, dispatched, launched, faults, faulted>>

\* fut.result(): blocks until the future is resolved, re-raises its exception
WaitResult ==
    /\ mainpc = "wait"
    /\ mi <= nruns
    /\ pc[mi] \in TerminatedPcs
    /\ IF pc[mi] = "raised"
       THEN /\ mainpc' = "shutdown"
            /\ err' = mi
            /\ mi' = mi
       ELSE /\ mi' = mi + 1
            /\ UNCHANGED <<mainpc, err>>
    /\ UNCHANGED <<input_dict, nruns, nprocs, queue, pc, ranks, lock, rank, proc,
                   exitcode, exc, status, synced, dispatched, launched, faults, faulted>>

WaitDone ==
    /\ mainpc = "wait"
    /\ mi > nruns
    /\ mainpc' = "shutdown"
    /\ UNCHANGED <<input_dict, nruns, nprocs, mi, err, queue, pc, ranks, lock, rank, proc,
                   exitcode, exc, status, synced, dispatched, launched, faults, faulted>>

\* leaving "with ThreadPoolExecutor(nprocs) as pool": shutdown(wait=True)
\* joins the worker threads, which first run every work item still queued
PoolJoinedNoWait == TRUE

PoolJoined == queue = <<>> /\ \A r \in Runs : pc[r] \in TerminatedPcs

Shutdown ==
    /\ mainpc = "shutdown"
    /\ PoolJoined
    /\ mainpc' = IF err = 0 THEN "returned" ELSE "raised"
    /\ UNCHANGED <<input_dict, nruns, nprocs, mi, err, queue, pc, ranks, lock, rank, proc,
                   exitcode, exc, status, synced, dispatched, launched, faults, faulted>>

BatchOver == mainpc \in {"returned", "raised"}

\* ---- dispatch_thread, run by a worker thread of the pool for run r

mvars == <<input_dict, nruns, nprocs, mainpc, mi, err>>

\* a worker thread without a work item takes the oldest one from the queue
\* and calls dispatch_thread for it
Dispatch(r) ==
    /\ queue # <<>>
    /\ Head(queue) = r
    /\ Busy < nprocs
    /\ queue' = Tail(queue)
    /\ pc' = [pc EXCEPT ![r] = "acquire"]
    /\ dispatched' = [dispatched EXCEPT ![r] = @ + 1]
    /\ UNCHANGED <<mvars, ranks, lock, rank, proc, exitcode, exc, status,
                   synced, launched, faults, faulted>>

\* LocalRankManager.acquire: self.lock.acquire() blocks while the lock is
\* held; rank = self.ranks.pop(); self.lock.release(). pop() of an empty list
\* raises IndexError: the lock is then never released, and the exception
\* leaves dispatch_thread before its try block.
Acquire(r) ==
    /\ pc[r] = "acquire"
    /\ lock = 0
    /\ IF ranks = <<>>
       THEN /\ pc' = [pc EXCEPT ![r] = "raised"]
            /\ lock' = r
            /\ UNCHANGED <<ranks, rank>>
       ELSE /\ rank' = [rank EXCEPT ![r] = ranks[Len(ranks)]]
            /\ ranks' = SubSeq(ranks, 1, Len(ranks) - 1)
            /\ lock' = 0
            /\ pc' = [pc EXCEPT ![r] = "start"]
    /\ UNCHANGED <<mvars, queue, proc, exitcode, exc, status, synced,
                   dispatched, launched, faults, faulted>>

\* creating a results directory raises: this is before the try block, so the
\* finally block does not run (the rank is not released, nothing is written)
MkdirsFail(r) ==
    /\ pc[r] = "start"
    /\ faults < MaxFaults
    /\ faults' = faults + 1
    /\ faulted' = [faulted EXCEPT ![r] = TRUE]
    /\ pc' = [pc EXCEPT ![r] = "raised"]
    /\ rank' = [rank EXCEPT ![r] = -1]
    /\ UNCHANGED <<mvars, queue, ranks, lock, proc, exitcode, exc, status,
                   synced, dispatched, launched>>

\* os.makedirs(local_results_dir), fs.exists / fs.makedirs of the remote
\* results directory; then, in the try block, the temporary files and the
\* remote stdout/stderr are opened, exitcode = None, and
\* subprocess.Popen(cmd, ...) starts the subprocess
Launch(r) ==
    /\ pc[r] = "start"
    /\ exitcode' = [exitcode EXCEPT ![r] = PyNone]
    /\ proc' = [proc EXCEPT ![r] = [st |-> "running", code |-> 0, rank |-> rank[r]]]
    /\ launched' = [launched EXCEPT ![r] = @ + 1]
    /\ pc' = [pc EXCEPT ![r] = "drain"]
    /\ UNCHANGED <<mvars, queue, ranks, lock, rank, exc, status, synced,
                   dispatched, faults, faulted>>

\* NamedTemporaryFile / open raises inside the try block, before
\* "exitcode = None" is executed
LaunchFailTmp(r) ==
    /\ pc[r] = "start"
    /\ faults < MaxFaults
    /\ faults' = faults + 1
    /\ faulted' = [faulted EXCEPT ![r] = TRUE]
    /\ exc' = [exc EXCEPT ![r] = TRUE]
    /\ pc' = [pc EXCEPT ![r] = "release"]
    /\ UNCHANGED <<mvars, queue, ranks, lock, rank, proc, exitcode, status,
                   synced, dispatched, launched>>

\* fsspec.open of the remote stdout/stderr or subprocess.Popen raises, after
\* "exitcode = None": no subprocess exists
LaunchFailPopen(r) ==
    /\ pc[r] = "start"
    /\ faults < MaxFaults
    /\ faults' = faults + 1
    /\ faulted' = [faulted EXCEPT ![r] = TRUE]
    /\ exitcode' = [exitcode EXCEPT ![r] = PyNone]
    /\ exc' = [exc EXCEPT ![r] = TRUE]
    /\ pc' = [pc EXCEPT ![r] = "release"]
    /\ UNCHANGED <<mvars, queue, ranks, lock, rank, proc, status, synced,
                   dispatched, launched>>

\* the subprocess of run r exits with some code (a step of the environment)
ProcExit(r) ==
    /\ proc[r].st = "running"
    /\ \E c \in ExitCodes :
          proc' = [proc EXCEPT ![r] = [st |-> "exited", code |-> c, rank |-> @.rank]]
    /\ UNCHANGED <<mvars, queue, pc, ranks, lock, rank, exitcode, exc, status,
                   synced, dispatched, launched, faults, faulted>>

\* the drain loop: proc.wait(1) returns the exit code once the subprocess has
\* exited (until then every iteration ends in TimeoutExpired and loops); the
\* last output is copied and the with block is left
Drain(r) ==
    /\ pc[r] = "drain"
    /\ proc[r].st = "exited"
    /\ exitcode' = [exitcode EXCEPT ![r] = PyInt(proc[r].code)]
    /\ pc' = [pc EXCEPT ![r] = "release"]
    /\ UNCHANGED <<mvars, queue, ranks, lock, rank, proc, exc, status, synced,
                   dispatched, launched, faults, faulted>>

\* as Drain, but copying the last output or closing the remote stdout/stderr
\* raises after proc.wait(1) has returned the exit code
DrainFailAfterExit(r) ==
    /\ pc[r] = "drain"
    /\ proc[r].st = "exited"
    /\ faults < MaxFaults
    /\ faults' = faults + 1
    /\ faulted' = [faulted EXCEPT ![r] = TRUE]
    /\ exitcode' = [exitcode EXCEPT ![r] = PyInt(proc[r].code)]
    /\ exc' = [exc EXCEPT ![r] = TRUE]
    /\ pc' = [pc EXCEPT ![r] = "release"]
    /\ UNCHANGED <<mvars, queue, ranks, lock, rank, proc, status, synced,
                   dispatched, launched>>

\* a read or write of the drain loop raises in an iteration whose
\* proc.wait(1) timed out: exitcode is still None and the subprocess, which
\* nothing kills or waits for, keeps running
DrainFail(r) ==
    /\ pc[r] = "drain"
    /\ proc[r].st = "running"
    /\ faults < MaxFaults
    /\ faults' = faults + 1
    /\ faulted' = [faulted EXCEPT ![r] = TRUE]
    /\ exc' = [exc EXCEPT ![r] = TRUE]
    /\ pc' = [pc EXCEPT ![r] = "release"]
    /\ UNCHANGED <<mvars, queue, ranks, lock, rank, proc, exitcode, status,
                   synced, dispatched, launched>>

\* finally: rank_manager.release(rank): self.lock.acquire() blocks while
\* the lock is held; self.ranks.append(rank); self.lock.release()
Release(r) ==
    /\ pc[r] = "release"
    /\ lock = 0
    /\ ranks' = Append(ranks, rank[r])
    /\ rank' = [rank EXCEPT ![r] = -1]
    /\ pc' = [pc EXCEPT ![r] = "rsync"]
    /\ UNCHANGED <<mvars, queue, lock, proc, exitcode, exc, status, synced,
                   dispatched, launched, faults, faulted>>

\* finally: _rsync(local_results_dir, remote_results_dir) copies what the
\* directory holds now; a subprocess that is still running may write more
\* result files afterwards, which nothing copies
Synced(p) == IF p.st = "running" THEN "partial" ELSE "all"

Rsync(r) ==
    /\ pc[r] = "rsync"
    /\ synced' = [synced EXCEPT ![r] = Synced(proc[r])]
    /\ pc' = [pc EXCEPT ![r] = "write"]
    /\ UNCHANGED <<mvars, queue, ranks, lock, rank, proc, exitcode, exc,
                   status, dispatched, launched, faults, faulted>>

\* finally: _rsync raises; the exception leaves the finally block at once
RsyncFail(r) ==
    /\ pc[r] = "rsync"
    /\ faults < MaxFaults
    /\ faults' = faults + 1
    /\ faulted' = [faulted EXCEPT ![r] = TRUE]
    /\ pc' = [pc EXCEPT ![r] = "raised"]
    /\ exitcode' = [exitcode EXCEPT ![r] = PyUnbound]
    /\ exc' = [exc EXCEPT ![r] = FALSE]
    /\ UNCHANGED <<mvars, queue, ranks, lock, rank, proc, status, synced,
                   dispatched, launched>>

\* finally: with fsspec.open(remote_status_code_path, "w") as f:
\*              f.write(str(exitcode))
\* With exitcode unbound the file is opened (created empty) and str(exitcode)
\* raises UnboundLocalError. Then the pending exception, if any, propagates.
StatusWritten(v) ==
    IF v.tag = "unbound" THEN File(<<>>) ELSE File(PyStr(v))

\* how dispatch_thread ends after the finally block: it raises the pending
\* exception or the UnboundLocalError of str(exitcode), else it returns None
\* whatever the exit code was
OutcomeChecked(pending, v) ==
    IF pending \/ v.tag = "unbound" \/ (v.tag = "int" /\ v.val # 0)
    THEN "raised" ELSE "returned"

Outcome(pending, v) ==
    IF pending \/ v.tag = "unbound" THEN "raised" ELSE "returned"

WriteStatus(r) ==
    /\ pc[r] = "write"
    /\ status' = [status EXCEPT ![r] = StatusWritten(exitcode[r])]
    /\ pc' = [pc EXCEPT ![r] = Outcome(exc[r], exitcode[r])]
    /\ exitcode' = [exitcode EXCEPT ![r] = PyUnbound]
    /\ exc' = [exc EXCEPT ![r] = FALSE]
    /\ UNCHANGED <<mvars, queue, ranks, lock, rank, proc, synced, dispatched,
                   launched, faults, faulted>>

\* finally: opening the remote status_code file raises
WriteFail(r) ==
    /\ pc[r] = "write"
    /\ faults < MaxFaults
    /\ faults' = faults + 1
    /\ faulted' = [faulted EXCEPT ![r] = TRUE]
    /\ pc' = [pc EXCEPT ![r] = "raised"]
    /\ exitcode' = [exitcode EXCEPT ![r] = PyUnbound]
    /\ exc' = [exc EXCEPT ![r] = FALSE]
    /\ UNCHANGED <<mvars, queue, ranks, lock, rank, proc, status, synced,
                   dispatched, launched>>

(***************************************************************************)
(* Paths. A path is the sequence of its segments, a segment is a text.     *)
(***************************************************************************)
\* the batch's remote_output_path
Root == << <<"o", "u", "t">> >>

\* a run directory that is not below the batch's remote_output_path
AltPath == << <<"a", "l", "t">>, <<"0">> >>

\* os.path.join(base, name) for a one-segment name
Join(base, name) == Append(base, name)

\* a falsy remote_output_path / local_results_dir: None, "" or no such key
NoPath == <<>>

\* the run directories of the model's remote store
PathUniverse == {Join(Root, IntToStr(i)) : i \in 0..(MaxRuns - 1)} \cup {AltPath}

(***************************************************************************)
(* Run and Batch.                                                          *)
(***************************************************************************)
\* Run.from_dict(rdict): cls(**rdict), status_code and status default to None
RunFromDict(rdict) ==
    [cmd |-> rdict.cmd,
     remote_output_path |-> rdict.remote_output_path,
     local_results_dir |-> rdict.local_results_dir,
     status_code |-> IF "status_code" \in DOMAIN rdict
                     THEN rdict.status_code ELSE PyNone,
     status |-> IF "status" \in DOMAIN rdict THEN rdict.status ELSE "None"]

\* the loop body of Batch.from_dict for the run dict at index idx (0-based)
FilledIgnoringGiven(rdict, root, idx) ==
    [rdict EXCEPT
        !.local_results_dir = IF @ = "" THEN "tmp_uuid" ELSE @,
        !.remote_output_path = Join(root, IntToStr(idx))]

Filled(rdict, root, idx) ==
    [rdict EXCEPT
        !.local_results_dir = IF @ = "" THEN "tmp_uuid" ELSE @,
        !.remote_output_path = IF @ = NoPath THEN Join(root, IntToStr(idx)) ELSE @]

\* Batch.from_dict(input_dict)
BatchFromDict(d) ==
    [nprocs |-> d.nprocs,
     remote_output_path |-> d.remote_output_path,
     runs |-> [i \in 1..Len(d.runs) |->
                 RunFromDict(Filled(d.runs[i], d.remote_output_path, i - 1))]]

(***************************************************************************)
(* categorize_runs                                                         *)
(***************************************************************************)
\* fs.glob(f"{remote_output_path}*/status_code"): the status_code files whose
\* run directory is a direct child of remote_output_path ("*" matches one
\* segment); the result is the set of these run directories
Glob(root, st) ==
    {p \in DOMAIN st :
        /\ st[p].exists
        /\ Len(p) = Len(root) + 1
        /\ SubSeq(p, 1, Len(root)) = root}

\* the accumulators of categorize_runs: the three lists hold references to
\* Run objects (their positions in runs), runs holds the objects themselves
CatStart(runs) ==
    [raised |-> FALSE, incomplete |-> <<>>, failures |-> <<>>,
     completed |-> <<>>, runs |-> runs]

\* one iteration of "for r in runs" for the run at position i; int() raising
\* ValueError ends the call
CatStepNoContinue(listing, st, acc, i) ==
    LET r == acc.runs[i]
        parsed == ParseInt(st[r.remote_output_path].content)
    IN  IF r.remote_output_path \notin listing
        THEN [acc EXCEPT !.incomplete = Append(@, i)]
        ELSE IF ~parsed.ok
        THEN [acc EXCEPT !.raised = TRUE]
        ELSE IF parsed.val = 0
        THEN [acc EXCEPT !.runs[i].status_code = PyInt(parsed.val),
                         !.runs[i].status = "completed",
                         !.completed = Append(@, i),
                         !.failures = Append(@, i)]
        ELSE [acc EXCEPT !.runs[i].status_code = PyInt(parsed.val),
                         !.runs[i].status = "error",
                         !.failures = Append(@, i)]

CatStepSkipAnnotated(listing, st, acc, i) ==
    LET r == acc.runs[i]
        parsed == ParseInt(st[r.remote_output_path].content)
    IN  IF r.status # "None"
        THEN acc
        ELSE IF r.remote_output_path \notin listing
        THEN [acc EXCEPT !.incomplete = Append(@, i)]
        ELSE IF ~parsed.ok
        THEN [acc EXCEPT !.raised = TRUE]
        ELSE IF parsed.val = 0
        THEN [acc EXCEPT !.runs[i].status_code = PyInt(parsed.val),
                         !.runs[i].status = "completed",
                         !.completed = Append(@, i)]
        ELSE [acc EXCEPT !.runs[i].status_code = PyInt(parsed.val),
                         !.runs[i].status = "error",
                         !.failures = Append(@, i)]

CatStep(listing, st, acc, i) ==
    LET r == acc.runs[i]
        parsed == ParseInt(st[r.remote_output_path].content)
    IN  IF r.remote_output_path \notin listing
        THEN [acc EXCEPT !.incomplete = Append(@, i)]
        ELSE IF ~parsed.ok
        THEN [acc EXCEPT !.raised = TRUE]
        ELSE IF parsed.val = 0
        THEN [acc EXCEPT !.runs[i].status_code = PyInt(parsed.val),
                         !.runs[i].status = "completed",
                         !.completed = Append(@, i)]
        ELSE [acc EXCEPT !.runs[i].status_code = PyInt(parsed.val),
                         !.runs[i].status = "error",
                         !.failures = Append(@, i)]

RECURSIVE CatLoop(_, _, _, _)
CatLoop(listing, st, acc, i) ==
    IF acc.raised \/ i > Len(acc.runs) THEN acc
    ELSE CatLoop(listing, st, CatStep(listing, st, acc, i), i + 1)

\* categorize_runs(remote_output_path, runs) against the remote store st
CategorizeRuns(root, runs, st) == CatLoop(Glob(root, st), st, CatStart(runs), 1)

(***************************************************************************)
(* The classifier's specification: a batch file and a remote store are     *)
(* given; summarize_batch loads and classifies the batch, then             *)
(* categorize_runs is called again on the same Run objects.                *)
(***************************************************************************)
\* the texts a status_code file may hold: what dispatch_thread writes for an
\* exit code, for exitcode = None and for an unbound exitcode
Contents ==
    {StatusWritten(PyInt(c)).content : c \in ExitCodes}
        \cup {StatusWritten(PyNone).content}

Stores == [PathUniverse -> {NoFile} \cup {File(c) : c \in Contents}]

\* the remote_output_path a run dict of the batch file may carry
GivenPaths == {NoPath, Join(Root, IntToStr(1)), AltPath}

\* the run dicts of a batch file with n runs: the i-th run has its own command
\* (the text of command i stands as i), no local_results_dir, and a given or
\* no remote_output_path
RunDicts(n, given) ==
    {[i \in 1..n |-> [cmd |-> i, remote_output_path |-> ps[i],
                      local_results_dir |-> ""]] : ps \in [1..n -> given]}

BatchDicts ==
    UNION {[nprocs : {1}, remote_output_path : {Root}, runs : RunDicts(n, GivenPaths)] :
              n \in 0..MaxRuns}

NoResult == CatStart(<<>>)

CIdle ==
    /\ bdict = [nprocs |-> 1, remote_output_path |-> Root, runs |-> <<>>]
    /\ store = [p \in PathUniverse |-> NoFile]
    /\ cpc = "idle"
    /\ cruns = <<>>
    /\ res1 = NoResult
    /\ res2 = NoResult
    /\ summary = <<>>

DIdle ==
    /\ input_dict = NoDescriptor
    /\ nruns = 0
    /\ nprocs = 1
    /\ mainpc = "idle"
    /\ mi = 1
    /\ err = 0
    /\ queue = <<>>
    /\ pc = <<>>
    /\ ranks = <<>>
    /\ lock = 0
    /\ rank = <<>>
    /\ proc = <<>>
    /\ exitcode = <<>>
    /\ exc = <<>>
    /\ status = <<>>
    /\ synced = <<>>
    /\ dispatched = <<>>
    /\ launched = <<>>
    /\ faults = 0
    /\ faulted = <<>>

CInit ==
    /\ bdict \in BatchDicts
    /\ store \in Stores
    /\ cpc = "start"
    /\ cruns = <<>>
    /\ res1 = NoResult
    /\ res2 = NoResult
    /\ summary = <<>>

\* summarize_batch(batch_dict)
Summarize ==
    /\ cpc = "start"
    /\ LET batch == BatchFromDict(bdict)
           got == CategorizeRuns(batch.remote_output_path, batch.runs, store)
       IN  /\ res1' = got
           /\ cruns' = got.runs
           /\ summary' = IF got.raised THEN <<>>
                         ELSE got.failures \o got.completed \o got.incomplete
           /\ cpc' = IF got.raised THEN "raised" ELSE "summarized"
    /\ UNCHANGED <<bdict, store, res2>>

\* categorize_runs called once more on the Run objects of the batch, the
\* remote store being what it was
Reclassify ==
    /\ cpc = "summarized"
    /\ LET got == CategorizeRuns(bdict.remote_output_path, cruns, store)
       IN  /\ res2' = got
           /\ cruns' = got.runs
           /\ cpc' = IF got.raised THEN "raised" ELSE "reclassified"
    /\ UNCHANGED <<bdict, store, res1, summary>>

(***************************************************************************)
(* split and split_cli                                                     *)
(***************************************************************************)
Min(a, b) == IF a < b THEN a ELSE b

\* cytoolz.partition_all(n, seq), n >= 1: consecutive chunks of n elements,
\* the last one holding what is left (a split whose batch_size_int is below 1
\* is outside partition_all's domain and is not modelled)
RECURSIVE PartitionAllDropTail(_, _)
PartitionAllDropTail(n, seq) ==
    IF Len(seq) < n THEN <<>>
    ELSE <<SubSeq(seq, 1, n)>> \o PartitionAllDropTail(n, SubSeq(seq, n + 1, Len(seq)))

RECURSIVE PartitionAll(_, _)
PartitionAll(n, seq) ==
    IF seq = <<>> THEN <<>>
    ELSE <<SubSeq(seq, 1, Min(n, Len(seq)))>>
             \o PartitionAll(n, SubSeq(seq, Min(n, Len(seq)) + 1, Len(seq)))

JsonSuffix == <<".", "j", "s", "o", "n">>

\* f"{idx}.json"
ChunkName(idx) == IntToStr(idx) \o JsonSuffix

\* x.endswith(".json")
IsJson(name) ==
    /\ Len(name) >= Len(JsonSuffix)
    /\ SubSeq(name, Len(name) - Len(JsonSuffix) + 1, Len(name)) = JsonSuffix

\* split_cli: every *.json file of the local commands directory is removed
PurgedNothing(dir) == dir

Purged(dir) == [name \in {x \in DOMAIN dir : ~IsJson(x)} |-> dir[name]]

\* to_execute[:max_jobs] when max_jobs > 0
TruncatedFromEnd(seq, max_jobs) ==
    IF max_jobs > 0
    THEN SubSeq(seq, Len(seq) - Min(max_jobs, Len(seq)) + 1, Len(seq))
    ELSE seq

Truncated(seq, max_jobs) ==
    IF max_jobs > 0 THEN SubSeq(seq, 1, Min(max_jobs, Len(seq))) ELSE seq

\* the runs split() selects: got is what categorize_runs returned, n the
\* number of runs of the batch
ToExecuteFromLists(got, n, include_completed, include_failures) ==
    got.incomplete
        \o (IF include_failures THEN got.failures ELSE <<>>)
        \o (IF include_completed THEN got.completed ELSE <<>>)

ToExecuteFailuresFirst(got, n, include_completed, include_failures) ==
    IF ~include_completed \/ ~include_failures
    THEN (IF include_failures THEN got.failures ELSE <<>>)
           \o got.incomplete
           \o (IF include_completed THEN got.completed ELSE <<>>)
    ELSE [i \in 1..n |-> i]

ToExecute(got, n, include_completed, include_failures) ==
    IF ~include_completed \/ ~include_failures
    THEN got.incomplete
           \o (IF include_failures THEN got.failures ELSE <<>>)
           \o (IF include_completed THEN got.completed ELSE <<>>)
    ELSE [i \in 1..n |-> i]

\* batch_size_int
BatchSizeInt(batch, batch_size) ==
    IF batch_size.tag = "none" THEN batch.nprocs * 3 ELSE batch_size.val

\* asdict(Batch(nprocs=batch.nprocs, runs=list(chunk),
\*              remote_output_path=batch.remote_output_path))
SubBatch(batch, runs, chunk) ==
    [nprocs |-> batch.nprocs,
     runs |-> [k \in 1..Len(chunk) |-> runs[chunk[k]]],
     remote_output_path |-> batch.remote_output_path]

\* the local commands directory after the chunk files were written
WithChunks(dir, batch, runs, chunks) ==
    [name \in DOMAIN dir \cup {ChunkName(i - 1) : i \in 1..Len(chunks)} |->
        IF \E i \in 1..Len(chunks) : ChunkName(i - 1) = name
        THEN SubBatch(batch, runs,
                      chunks[CHOOSE i \in 1..Len(chunks) : ChunkName(i - 1) = name])
        ELSE dir[name]]

\* f"sc batch {remote_fpath}" with remote_fpath =
\* join(remote_commands_directory, f"{idx}.json")
BatchCommandOneBased(idx) ==
    [tool |-> "sc batch", dir |-> "remote", name |-> ChunkName(idx + 1)]

BatchCommand(idx) == [tool |-> "sc batch", dir |-> "remote", name |-> ChunkName(idx)]

\* the options of "sc split"
BatchSizes == {PyNone, PyInt(1), PyInt(2)}

MaxJobsChoices == {-1, 0, 1, 2}

CliOptions ==
    [batch_size : BatchSizes, skip_completed : BOOLEAN,
     skip_failures : BOOLEAN, max_jobs : MaxJobsChoices]

\* the keyword arguments split_cli passes to split():
\* include_completed = not skip_completed, include_failures = not skip_failures
SplitArgs(opts) ==
    [batch_size |-> opts.batch_size,
     include_completed |-> ~opts.skip_completed,
     include_failures |-> ~opts.skip_failures,
     max_jobs |-> opts.max_jobs]

SplitParams == {SplitArgs(opts) : opts \in CliOptions}

NoParams ==
    [batch_size |-> PyNone, include_completed |-> FALSE,
     include_failures |-> FALSE, max_jobs |-> -1]

\* what the recipe template holds as command before the split
OldCommand == <<[tool |-> "python", dir |-> "", name |-> <<"m", "a", "i", "n">>]>>

\* a file of an earlier split_cli run found in the local commands directory
StaleChunk == [nprocs |-> 1, runs |-> <<>>, remote_output_path |-> Root]

RecipeName == <<"r", "e", "c", "i", "p", "e", ".", "y", "a", "m", "l">>

\* yaml.dump(recipe, f): the recipe as written to recipe.yaml
RecipeDump(cmds) == [command |-> cmds]

\* the local commands directory before the split: missing or empty, or left
\* by an earlier split_cli that wrote MaxRuns chunks and recipe.yaml
LocalDirs ==
    {<<>>,
     [name \in {ChunkName(i) : i \in 0..(MaxRuns - 1)} \cup {RecipeName} |->
        IF name = RecipeName
        THEN RecipeDump([i \in 1..MaxRuns |-> BatchCommand(i - 1)])
        ELSE StaleChunk]}

\* the batch files and remote stores of the splitter's specification
\* (only the last run may carry a remote_output_path of its own)
SplitBatchDicts ==
    UNION {[nprocs : 0..MaxProcs, remote_output_path : {Root},
            runs : {rd \in RunDicts(n, {NoPath, AltPath}) :
                       \A i \in 1..(n - 1) : rd[i].remote_output_path = NoPath}] :
              n \in 0..MaxRuns}

\* the status_code files hold "0" or "1"; the one of the first run may also
\* hold "None", which dispatch_thread writes when it has no exit code
SplitStores ==
    {st \in [PathUniverse ->
                {NoFile, File(<<"0">>), File(<<"1">>), File(NoneStr)}] :
        /\ st[AltPath] # File(<<"1">>)
        /\ \A p \in PathUniverse :
            st[p] = File(NoneStr) => p = Join(Root, IntToStr(0))}

SIdle ==
    /\ spc = "idle"
    /\ sparams = NoParams
    /\ files = <<>>
    /\ command = OldCommand
    /\ sruns = <<>>
    /\ filtered = <<>>
    /\ selected = <<>>
    /\ written = <<>>
    /\ lookups = 0

\* the remote store holds status_code files of runs of this batch only
SInit ==
    /\ bdict \in SplitBatchDicts
    /\ store \in SplitStores
    /\ \A p \in PathUniverse :
        store[p].exists =>
            \E i \in 1..Len(bdict.runs) :
                BatchFromDict(bdict).runs[i].remote_output_path = p
    /\ cpc = "idle"
    /\ cruns = <<>>
    /\ res1 = NoResult
    /\ res2 = NoResult
    /\ summary = <<>>
    /\ spc = "start"
    /\ sparams = NoParams
    /\ files \in LocalDirs
    /\ command = OldCommand
    /\ sruns = <<>>
    /\ filtered = <<>>
    /\ selected = <<>>
    /\ written = <<>>
    /\ lookups = 0

\* split_cli: the *.json files of the local commands directory are removed,
\* then split(recipe, batch_info, ...) selects, cuts and chunks the runs and
\* writes the chunk files and the recipe's command; at last recipe.yaml is
\* written. A ValueError of categorize_runs leaves split_cli after the purge.
SplitCli(opts) ==
    /\ spc \in {"start", "done", "raised"}
    /\ BatchSizeInt(BatchFromDict(bdict), SplitArgs(opts).batch_size) >= 1
    /\ LET params == SplitArgs(opts)
           batch == BatchFromDict(bdict)
           filtering == ~params.include_completed \/ ~params.include_failures
       IN  \E got \in {IF filtering
                       THEN CategorizeRuns(batch.remote_output_path, batch.runs, store)
                       ELSE CatStart(batch.runs)} :
           \E chosen \in {ToExecute(got, Len(batch.runs), params.include_completed,
                                    params.include_failures)} :
           \E to_execute \in {Truncated(chosen, params.max_jobs)} :
           \E chunks \in {PartitionAll(BatchSizeInt(batch, params.batch_size),
                                       to_execute)} :
           \E cmds \in {[i \in 1..Len(chunks) |-> BatchCommand(i - 1)]} :
               /\ sparams' = params
               /\ lookups' = IF filtering THEN 1 ELSE 0
               /\ sruns' = got.runs
               /\ IF got.raised
                  THEN /\ spc' = "raised"
                       /\ files' = Purged(files)
                       /\ filtered' = <<>>
                       /\ selected' = <<>>
                       /\ written' = <<>>
                       /\ UNCHANGED command
                  ELSE /\ spc' = "done"
                       /\ filtered' = chosen
                       /\ selected' = to_execute
                       /\ written' = [i \in 1..Len(chunks) |-> ChunkName(i - 1)]
                       /\ command' = cmds
                       /\ files' = [name \in DOMAIN Purged(files)
                                              \cup {ChunkName(i - 1) : i \in 1..Len(chunks)}
                                              \cup {RecipeName} |->
                                      IF name = RecipeName THEN RecipeDump(cmds)
                                      ELSE WithChunks(Purged(files), batch, got.runs,
                                                      chunks)[name]]
    /\ UNCHANGED <<bdict, store, cpc, cruns, res1, res2, summary>>

(***************************************************************************)
(* SaturnSession (core.py): the response hook that refreshes an expired    *)
(* API token and sends the request again.                                  *)
(***************************************************************************)
\* settings.BASE_URL and the URLs requests go to, as sequences of segments
BaseUrl == <<"app">>

Urls == {<<"app", "api">>, <<"ext", "api">>}

\* str.startswith
StartsWith(text, prefix) ==
    Len(text) >= Len(prefix) /\ SubSeq(text, 1, Len(prefix)) = prefix

Expired == <<"e", "x", "p", "i", "r", "e", "d">>

\* Python's "sub in text" for two str values
Contains(text, sub) ==
    \E i \in 1..(Len(text) - Len(sub) + 1) :
        SubSeq(text, i, i + Len(sub) - 1) = sub

\* the "message" texts a server may answer with
Messages ==
    {<<"t", "o", "k", "e", "n", " ">> \o Expired \o <<".">>,
     <<"E", "x", "p", "i", "r", "e", "d">>,
     <<"i", "n", "v", "a", "l", "i", "d">>}

\* a response body: not JSON, JSON without "message", JSON with a message
NoJson == [json |-> FALSE, has_message |-> FALSE, message |-> <<>>]

Bodies ==
    {NoJson, [json |-> TRUE, has_message |-> FALSE, message |-> <<>>]}
    \cup {[json |-> TRUE, has_message |-> TRUE, message |-> m] : m \in Messages}

StatusCodes == {200, 401, 500}

Responses == [status_code : StatusCodes, body : Bodies]

NoResponse == [status_code |-> 0, body |-> NoJson]

\* response.ok
Ok(resp) == resp.status_code < 400

\* what the POST to api/auth/token does: requests.post raises; the response
\* is not ok; it is ok without a JSON body holding "access_token"; it is ok
\* with an access token; it is ok with an empty access token
RefreshReplies == {"raises", "rejected", "malformed", "token", "no_token"}

NoRequest ==
    [url |-> <<>>, retry |-> FALSE, token |-> 0, sends |-> 0,
     refreshed |-> "no", first |-> NoResponse]

\* SaturnSession._should_refresh
ShouldRefreshAgain(req, resp) ==
    IF ~StartsWith(req.url, BaseUrl) THEN FALSE
    ELSE IF resp.status_code = 401
         THEN IF resp.body.json /\ resp.body.has_message
              THEN Contains(resp.body.message, Expired)
              ELSE FALSE
         ELSE FALSE

ShouldRefresh(req, resp) ==
    IF req.retry THEN FALSE
    ELSE IF ~StartsWith(req.url, BaseUrl) THEN FALSE
    ELSE IF resp.status_code = 401
         THEN IF resp.body.json /\ resp.body.has_message
              THEN Contains(resp.body.message, Expired)
              ELSE FALSE
         ELSE FALSE

\* SaturnSession._refresh with Settings.update_tokens: what it returns or
\* that it raises, and the settings afterwards
Refresh(settings, reply) ==
    IF ~settings.refresh_token
    THEN [returned |-> FALSE, raised |-> FALSE, settings |-> settings,
          outcome |-> "unconfigured"]
    ELSE CASE reply \in {"raises", "malformed"} ->
                [returned |-> FALSE, raised |-> TRUE, settings |-> settings,
                 outcome |-> reply]
           [] reply = "rejected" ->
                [returned |-> FALSE, raised |-> FALSE, settings |-> settings,
                 outcome |-> reply]
           [] reply = "token" ->
                [returned |-> TRUE, raised |-> FALSE,
                 settings |-> [settings EXCEPT !.token = @ + 1],
                 outcome |-> reply]
           [] reply = "no_token" ->
                [returned |-> TRUE, raised |-> FALSE, settings |-> settings,
                 outcome |-> reply]

HIdle ==
    /\ hpc = "off"
    /\ hreq = NoRequest
    /\ hresp = NoResponse
    /\ hset = [token |-> 0, refresh_token |-> FALSE]
    /\ herr = "none"
    /\ hn = 0

\* SaturnSession(settings): with or without a refresh token
HInit ==
    /\ hpc = "idle"
    /\ hreq = NoRequest
    /\ hresp = NoResponse
    /\ hset \in [token : {0}, refresh_token : BOOLEAN]
    /\ herr = "none"
    /\ hn = 0

\* session.get / post / ...: the request is prepared with the session's
\* headers and hooks and sent
SessionRequest ==
    /\ hpc \in {"idle", "done", "raised"}
    /\ hn < MaxRequests
    /\ \E u \in Urls :
          hreq' = [url |-> u, retry |-> FALSE, token |-> hset.token,
                   sends |-> 1, refreshed |-> "no", first |-> NoResponse]
    /\ hpc' = "await"
    /\ hresp' = NoResponse
    /\ herr' = "none"
    /\ hn' = hn + 1
    /\ UNCHANGED hset

\* the server answers the request that was sent last
Respond ==
    /\ hpc = "await"
    /\ \E resp \in Responses :
          /\ hresp' = resp
          /\ hreq' = IF hreq.sends = 1 THEN [hreq EXCEPT !.first = resp] ELSE hreq
    /\ hpc' = "hook"
    /\ UNCHANGED <<hset, herr, hn>>

\* SaturnSession._handle_response, the response hook, up to the point where
\* it returns, raises, or has sent the request again and waits for the
\* answer (whose own hook call decides what both calls return)
HandleResponse ==
    /\ hpc = "hook"
    /\ hreq.sends <= MaxSends
    /\ IF Ok(hresp)
       THEN /\ hpc' = "done"
            /\ UNCHANGED <<hreq, hset, herr>>
       ELSE IF ShouldRefresh(hreq, hresp)
       THEN \E reply \in RefreshReplies :
              \E res \in {Refresh(hset, reply)} :
                /\ hset' = res.settings
                /\ IF res.raised
                   THEN /\ hpc' = "raised"
                        /\ herr' = "other"
                        /\ hreq' = [hreq EXCEPT !.refreshed = res.outcome]
                   ELSE IF res.returned
                   THEN /\ hpc' = "await"
                        /\ hreq' = [hreq EXCEPT !.retry = TRUE,
                                                !.token = res.settings.token,
                                                !.sends = @ + 1,
                                                !.refreshed = res.outcome]
                        /\ UNCHANGED herr
                   ELSE /\ hpc' = "raised"
                        /\ herr' = "SaturnHTTPError"
                        /\ hreq' = [hreq EXCEPT !.refreshed = res.outcome]
       ELSE /\ hpc' = "raised"
            /\ herr' = "SaturnHTTPError"
            /\ UNCHANGED <<hreq, hset>>
    /\ UNCHANGED <<hresp, hn>>

Init == DInit /\ CIdle /\ SIdle /\ HIdle

Next ==
    \/ Load /\ UNCHANGED <<cvars, svars, hvars>>
    \/ Submit /\ UNCHANGED <<cvars, svars, hvars>>
    \/ SubmitDone /\ UNCHANGED <<cvars, svars, hvars>>
    \/ WaitResult /\ UNCHANGED <<cvars, svars, hvars>>
    \/ WaitDone /\ UNCHANGED <<cvars, svars, hvars>>
    \/ Shutdown /\ UNCHANGED <<cvars, svars, hvars>>
    \/ \E r \in Runs : Dispatch(r) /\ UNCHANGED <<cvars, svars, hvars>>
    \/ \E r \in Runs : Acquire(r) /\ UNCHANGED <<cvars, svars, hvars>>
    \/ \E r \in Runs : MkdirsFail(r) /\ UNCHANGED <<cvars, svars, hvars>>
    \/ \E r \in Runs : Launch(r) /\ UNCHANGED <<cvars, svars, hvars>>
    \/ \E r \in Runs : LaunchFailTmp(r) /\ UNCHANGED <<cvars, svars, hvars>>
    \/ \E r \in Runs : LaunchFailPopen(r) /\ UNCHANGED <<cvars, svars, hvars>>
    \/ \E r \in Runs : ProcExit(r) /\ UNCHANGED <<cvars, svars, hvars>>
    \/ \E r \in Runs : Drain(r) /\ UNCHANGED <<cvars, svars, hvars>>
    \/ \E r \in Runs : DrainFailAfterExit(r) /\ UNCHANGED <<cvars, svars, hvars>>
    \/ \E r \in Runs : DrainFail(r) /\ UNCHANGED <<cvars, svars, hvars>>
    \/ \E r \in Runs : Release(r) /\ UNCHANGED <<cvars, svars, hvars>>
    \/ \E r \in Runs : Rsync(r) /\ UNCHANGED <<cvars, svars, hvars>>
    \/ \E r \in Runs : RsyncFail(r) /\ UNCHANGED <<cvars, svars, hvars>>
    \/ \E r \in Runs : WriteStatus(r) /\ UNCHANGED <<cvars, svars, hvars>>
    \/ \E r \in Runs : WriteFail(r) /\ UNCHANGED <<cvars, svars, hvars>>

Spec == Init /\ [][Next]_vars

\* the steps that the scheduler and the operating system take sooner or
\* later once they can be taken: a thread that can run gets to run, and a
\* started subprocess exits; no fault has to happen
Progress ==
    \/ Load /\ UNCHANGED <<cvars, svars, hvars>>
    \/ Submit /\ UNCHANGED <<cvars, svars, hvars>>
    \/ SubmitDone /\ UNCHANGED <<cvars, svars, hvars>>
    \/ WaitResult /\ UNCHANGED <<cvars, svars, hvars>>
    \/ WaitDone /\ UNCHANGED <<cvars, svars, hvars>>
    \/ Shutdown /\ UNCHANGED <<cvars, svars, hvars>>
    \/ \E r \in Runs : Dispatch(r) /\ UNCHANGED <<cvars, svars, hvars>>
    \/ \E r \in Runs : Acquire(r) /\ UNCHANGED <<cvars, svars, hvars>>
    \/ \E r \in Runs : Launch(r) /\ UNCHANGED <<cvars, svars, hvars>>
    \/ \E r \in Runs : ProcExit(r) /\ UNCHANGED <<cvars, svars, hvars>>
    \/ \E r \in Runs : Drain(r) /\ UNCHANGED <<cvars, svars, hvars>>
    \/ \E r \in Runs : Release(r) /\ UNCHANGED <<cvars, svars, hvars>>
    \/ \E r \in Runs : Rsync(r) /\ UNCHANGED <<cvars, svars, hvars>>
    \/ \E r \in Runs : WriteStatus(r) /\ UNCHANGED <<cvars, svars, hvars>>

\* batch() under fair scheduling, every subprocess exiting in the end
SpecFair == Init /\ [][Next]_vars /\ WF_vars(Progress)

InitClassify == CInit /\ DIdle /\ SIdle /\ HIdle

NextClassify ==
    \/ Summarize /\ UNCHANGED <<dvars, svars, hvars>>
    \/ Reclassify /\ UNCHANGED <<dvars, svars, hvars>>

SpecClassify == InitClassify /\ [][NextClassify]_vars

InitSplit == SInit /\ DIdle /\ HIdle

NextSplit == \E opts \in CliOptions : SplitCli(opts) /\ UNCHANGED <<dvars, hvars>>

SpecSplit == InitSplit /\ [][NextSplit]_vars

InitHttp == HInit /\ DIdle /\ CIdle /\ SIdle

NextHttp ==
    \/ SessionRequest /\ UNCHANGED <<dvars, cvars, svars>>
    \/ Respond /\ UNCHANGED <<dvars, cvars, svars>>
    \/ HandleResponse /\ UNCHANGED <<dvars, cvars, svars>>

SpecHttp == InitHttp /\ [][NextHttp]_vars

(***************************************************************************)
(* Properties of the dispatcher, checked under Spec.                       *)
(***************************************************************************)

\* C1: one call of batch() calls dispatch_thread for each run exactly once:
\* never twice (and so never more than one Popen per run), and when batch()
\* returns or raises no run has been left undispatched.
C1_DispatchedExactlyOnce ==
    /\ \A r \in Runs : dispatched[r] <= 1 /\ launched[r] <= dispatched[r]
    /\ BatchOver => \A r \in Runs : dispatched[r] = 1

C1_Witness ==
    /\ BatchOver
    /\ nruns > nprocs
    /\ nprocs > 1
    /\ \A r \in Runs : dispatched[r] = 1 /\ launched[r] = 1

\* C2 (as claimed): in every reachable state the number of subprocesses in
\* flight is at most nprocs.
C2_SubprocessesWithinLimit == Cardinality(InFlight) <= nprocs

C4_StatusWrittenOnEveryExit ==
    \A r \in Runs :
        (launched[r] = 1 /\ pc[r] \in TerminatedPcs) => status[r].exists

C6_FailuresIsolated ==
    /\ \A r \in Runs :
        (pc[r] \in TerminatedPcs /\ ~faulted[r]) => pc[r] = "returned"
    /\ mainpc = "raised" =>
        /\ \A r \in Runs : pc[r] \in TerminatedPcs
        /\ pc[err] = "raised"
        /\ \A r \in Runs : r < err => pc[r] = "returned"

\* the keys the claim calls required: a batch without runs or
\* remote_output_path, or a run without cmd, is malformed
Malformed(d) ==
    ~d.has_runs \/ ~d.has_root \/ \E i \in DOMAIN d.has_cmd : ~d.has_cmd[i]

\* C18: batch() given a malformed descriptor fails while loading it: no run
\* is ever queued or dispatched, no subprocess started, no remote file
\* written.
C18_MalformedFailsAtLoad ==
    Malformed(input_dict) =>
        /\ mainpc \in {"load", "load_raised"}
        /\ queue = <<>>
        /\ \A r \in Runs :
            /\ pc[r] = "new"
            /\ dispatched[r] = 0
            /\ launched[r] = 0
            /\ proc[r] = NoProc
            /\ ~status[r].exists

C18_Witness ==
    /\ mainpc = "load_raised"
    /\ nruns = 2
    /\ input_dict.has_root
    /\ input_dict.has_cmd[1]
    /\ ~input_dict.has_cmd[2]

\* the batch as loaded and the remote store as the executors left it: run r
\* writes {root}/{r-1}/status_code
DispatchedRuns ==
    BatchFromDict([nprocs |-> nprocs, remote_output_path |-> Root,
                   runs |-> [i \in 1..nruns |->
                               [cmd |-> i, remote_output_path |-> NoPath,
                                local_results_dir |-> ""]]]).runs

DispatchedStore ==
    [p \in PathUniverse |->
        IF \E r \in Runs : DispatchedRuns[r].remote_output_path = p
        THEN status[CHOOSE r \in Runs : DispatchedRuns[r].remote_output_path = p]
        ELSE NoFile]

\* C20 (as claimed): an executor that failed without a subprocess (the
\* launch raised) and wrote status_code wrote an integer sentinel: a later
\* categorize_runs on the batch does not raise and has the run in failures.
C20_SentinelOnExecutorFailure ==
    \A r \in Runs :
        (pc[r] = "raised" /\ proc[r].st = "none" /\ status[r].exists) =>
            LET got == CategorizeRuns(Root, DispatchedRuns, DispatchedStore)
            IN  ~got.raised /\ r \in Elems(got.failures)

(***************************************************************************)
(* Properties of the classifier, checked under SpecClassify.               *)
(***************************************************************************)
Classified == cpc \in {"summarized", "reclassified"}

\* C7: the lists incomplete, failures and completed returned by
\* categorize_runs are pairwise disjoint and together hold every run of the
\* input list exactly once; summarize_batch returns a permutation of the runs.
C7_CategorizePartitions ==
    Classified =>
        LET n == Len(cruns)
            all == res1.incomplete \o res1.failures \o res1.completed
        IN  /\ Elems(res1.incomplete) \cap Elems(res1.failures) = {}
            /\ Elems(res1.incomplete) \cap Elems(res1.completed) = {}
            /\ Elems(res1.failures) \cap Elems(res1.completed) = {}
            /\ Len(all) = n
            /\ \A i \in 1..n : Occurrences(all, i) = 1
            /\ Len(summary) = n
            /\ \A i \in 1..n : Occurrences(summary, i) = 1

C7_Witness ==
    /\ cpc = "summarized"
    /\ res1.incomplete # <<>>
    /\ res1.failures # <<>>
    /\ res1.completed # <<>>

\* the status_code file of the run at position i, at its own
\* {remote_output_path}/status_code
OwnFile(i) == store[cruns[i].remote_output_path]

\* C8 (as claimed): each run is placed by its own status_code file: absent
\* means incomplete (and neither completed nor failures), content 0 means
\* completed, any other integer means failures; and status is completed iff
\* status_code is 0, error iff it is a non-zero integer, unset iff incomplete.
C8_PlacedByOwnStatusFile ==
    cpc = "summarized" =>
        \A i \in 1..Len(cruns) :
            LET f == OwnFile(i)
                v == ParseInt(f.content)
                r == cruns[i]
            IN  /\ ~f.exists =>
                    /\ i \in Elems(res1.incomplete)
                    /\ i \notin Elems(res1.completed) \cup Elems(res1.failures)
                /\ (f.exists /\ v.ok /\ v.val = 0) => i \in Elems(res1.completed)
                /\ (f.exists /\ v.ok /\ v.val # 0) => i \in Elems(res1.failures)
                /\ r.status = "completed" <=> r.status_code = PyInt(0)
                /\ r.status = "error" <=>
                    (r.status_code.tag = "int" /\ r.status_code.val # 0)
                /\ r.status = "None" <=> i \in Elems(res1.incomplete)

\* C9: a second categorize_runs call on the same runs, the remote store
\* unchanged, returns the same incomplete, failures and completed lists as the
\* first, although the first call annotated the Run objects.
C9_ClassificationIdempotent ==
    cpc = "reclassified" =>
        /\ res2.incomplete = res1.incomplete
        /\ res2.failures = res1.failures
        /\ res2.completed = res1.completed

C9_Witness ==
    /\ cpc = "reclassified"
    /\ res2.incomplete # <<>>
    /\ res2.failures # <<>>
    /\ res2.completed # <<>>
    /\ \E i \in 1..Len(cruns) : cruns[i].status = "error"

\* C17 (as claimed): any two distinct runs of a loaded Batch have different
\* remote_output_paths, hence different status_code, stdout, stderr and
\* results/ paths.
C17_RunPathsDisjoint ==
    cpc \in {"summarized", "reclassified", "raised"} =>
        \A i, j \in 1..Len(cruns) :
            i # j => cruns[i].remote_output_path # cruns[j].remote_output_path

\* C19 (as claimed): categorize_runs returns no partition for a run list
\* in which some run's status_code file holds a text that int() rejects.
C19_UnparseableRaises ==
    cpc = "summarized" =>
        \A i \in 1..Len(cruns) :
            OwnFile(i).exists => ParseInt(OwnFile(i).content).ok

(***************************************************************************)
(* Properties of the splitter, checked under SpecSplit.                    *)
(***************************************************************************)
\* the run lists of the chunk files 0.json .. (n-1).json, concatenated
RECURSIVE ChunkRuns(_)
ChunkRuns(n) ==
    IF n = 0 THEN <<>>
    ELSE ChunkRuns(n - 1) \o files[ChunkName(n - 1)].runs

\* C10: a split that selected M runs and uses chunk size K >= 1 writes
\* ceil(M/K) chunk files, each of at most K runs and all but the last of
\* exactly K, and the files' run lists concatenated in index order are the
\* selected runs in their order.
C10_SplitPreservesOrderAndSize ==
    spc = "done" =>
        LET M == Len(selected)
            K == BatchSizeInt(BatchFromDict(bdict), sparams.batch_size)
            n == Len(written)
        IN  /\ K >= 1
            /\ n = (M + K - 1) \div K
            /\ \A i \in 0..(n - 1) :
                /\ written[i + 1] = ChunkName(i)
                /\ ChunkName(i) \in DOMAIN files
                /\ Len(files[ChunkName(i)].runs) <= K
                /\ i < n - 1 => Len(files[ChunkName(i)].runs) = K
            /\ ChunkRuns(n) = [k \in 1..M |-> sruns[selected[k]]]

C10_Witness ==
    /\ spc = "done"
    /\ Len(selected) = 3
    /\ sparams.batch_size = PyInt(2)
    /\ Len(written) = 2
    /\ Len(files[ChunkName(1)].runs) = 1

\* the status_code file of the run at position i of the split batch, and the
\* run positions whose own file is absent, holds 0, holds another integer
OwnSplitFile(i) == store[sruns[i].remote_output_path]

OwnIncomplete == {i \in 1..Len(sruns) : ~OwnSplitFile(i).exists}

OwnCompleted ==
    {i \in 1..Len(sruns) :
        /\ OwnSplitFile(i).exists
        /\ ParseInt(OwnSplitFile(i).content) = [ok |-> TRUE, val |-> 0]}

OwnFailed ==
    {i \in 1..Len(sruns) :
        /\ OwnSplitFile(i).exists
        /\ ParseInt(OwnSplitFile(i).content).ok
        /\ ParseInt(OwnSplitFile(i).content).val # 0}

\* the runs held by the chunk files of this split (a run is known by its cmd)
WrittenRuns ==
    {ChunkRuns(Len(written))[k].cmd : k \in 1..Len(ChunkRuns(Len(written)))}

JsonFiles == {x \in DOMAIN files : IsJson(x)}

\* C11 (as claimed): with no cut by max_jobs and every status_code file
\* holding an integer, the runs the splitter writes are the incomplete runs,
\* plus the completed runs iff include_completed, plus the failed runs iff
\* include_failures; with both flags unset (the default of split) exactly the
\* incomplete runs.
C11_SelectionPolicy ==
    (/\ spc = "done"
     /\ sparams.max_jobs <= 0
     /\ \A i \in 1..Len(sruns) :
            OwnSplitFile(i).exists => ParseInt(OwnSplitFile(i).content).ok) =>
        WrittenRuns =
            OwnIncomplete
                \cup (IF sparams.include_completed THEN OwnCompleted ELSE {})
                \cup (IF sparams.include_failures THEN OwnFailed ELSE {})

\* C12: with include_completed and include_failures both set, split() makes
\* no classification lookup (so it cannot fail on the remote store and
\* annotates no run) and selects all runs of the batch in the batch's order.
C12_NoLookupWhenBothIncluded ==
    (/\ spc \in {"done", "raised"}
     /\ sparams.include_completed
     /\ sparams.include_failures) =>
        /\ spc = "done"
        /\ lookups = 0
        /\ filtered = [i \in 1..Len(bdict.runs) |-> i]
        /\ \A i \in 1..Len(sruns) : sruns[i].status = "None"

C12_Witness ==
    /\ spc = "done"
    /\ sparams.include_completed
    /\ sparams.include_failures
    /\ Len(sruns) = 3
    /\ store[Join(Root, IntToStr(0))] = File(NoneStr)
    /\ store[Join(Root, IntToStr(1))] = File(<<"0">>)
    /\ lookups = 0

\* C13: with max_jobs > 0 the selected runs are the first min(max_jobs, M) of
\* the M filtered runs, in their order; with max_jobs <= 0 none is dropped;
\* the chunks are cut from the truncated list.
C13_MaxJobsKeepsPrefix ==
    spc = "done" =>
        LET M == Len(filtered)
            kept == IF sparams.max_jobs > 0 /\ sparams.max_jobs < M
                    THEN sparams.max_jobs ELSE M
        IN  /\ Len(selected) = kept
            /\ \A k \in 1..kept : selected[k] = filtered[k]
            /\ ChunkRuns(Len(written)) = [k \in 1..kept |-> sruns[filtered[k]]]

C13_Witness ==
    /\ spc = "done"
    /\ sparams.max_jobs = 2
    /\ ~sparams.include_completed
    /\ Len(filtered) = 3
    /\ Len(selected) = 2
    /\ sparams.batch_size = PyInt(1)
    /\ Len(written) = 2

\* C14: after split() the recipe's command holds, in place of what it held
\* before, one batch invocation per chunk file written by this split, in
\* index order: entry i names {i}.json in the remote commands directory, and
\* chunk i is the file {i}.json of the local commands directory.
C14_CommandPerChunkFile ==
    spc = "done" =>
        /\ Len(command) = Len(written)
        /\ Cardinality(JsonFiles) = Len(command)
        /\ \A i \in 1..Len(command) :
            /\ command[i].tool = "sc batch"
            /\ command[i].dir = "remote"
            /\ command[i].name = IntToStr(i - 1) \o JsonSuffix
            /\ command[i].name = written[i]
            /\ written[i] \in DOMAIN files
        /\ \A i \in 1..Len(command) : command[i] \notin Elems(OldCommand)

C14_Witness ==
    /\ spc = "done"
    /\ Len(command) = 2
    /\ Len(selected) = 3
    /\ files[RecipeName] = RecipeDump(command)

\* C15 (as claimed): when every run of the batch has a status_code file
\* (holding an integer) and the split excludes completed and failed runs, nothing is selected, no
\* chunk file is written and the recipe's command list is empty.
C15_NothingToRerun ==
    (/\ spc \in {"done", "raised"}
     /\ ~sparams.include_completed
     /\ ~sparams.include_failures
     /\ \A i \in 1..Len(sruns) :
            /\ OwnSplitFile(i).exists
            /\ ParseInt(OwnSplitFile(i).content).ok) =>
        /\ spc = "done"
        /\ selected = <<>>
        /\ written = <<>>
        /\ JsonFiles = {}
        /\ command = <<>>

\* C16: after any sequence of splits on the same local commands directory
\* its *.json files are exactly the chunk files 0.json .. (N-1).json of the
\* most recent split; no chunk file of an earlier split is left.
C16_NoStaleChunks ==
    spc \in {"done", "raised"} =>
        JsonFiles = {ChunkName(i) : i \in 0..(Len(written) - 1)}

\* a split that wrote two chunks and recipe.yaml was followed by a split that
\* failed in its classification, after the purge
C16_Witness ==
    /\ spc = "raised"
    /\ RecipeName \in DOMAIN files
    /\ Len(files[RecipeName].command) = 2
    /\ JsonFiles = {}

\* C21 (as claimed): the batch a split loaded and every sub-batch it wrote
\* have nprocs >= 1.
C21_ConcurrencyLimitPositive ==
    spc = "done" =>
        /\ BatchFromDict(bdict).nprocs >= 1
        /\ \A name \in JsonFiles : files[name].nprocs >= 1

\* C28: every chunk file written by split(), loaded with Batch.from_dict,
\* has the nprocs and remote_output_path of the master batch, and each of
\* its runs has the cmd and the remote_output_path it has in the master batch
\* (whatever its position in the chunk), hence the same status_code path.
C28_SplitThenLoadKeepsRuns ==
    spc = "done" =>
        LET master == BatchFromDict(bdict)
        IN  \A c \in 1..Len(written) :
                LET sub == BatchFromDict(files[written[c]])
                    K == BatchSizeInt(master, sparams.batch_size)
                IN  /\ sub.nprocs = master.nprocs
                    /\ sub.remote_output_path = master.remote_output_path
                    /\ \A k \in 1..Len(sub.runs) :
                        LET m == selected[(c - 1) * K + k]
                        IN  /\ sub.runs[k].cmd = master.runs[m].cmd
                            /\ sub.runs[k].remote_output_path =
                                   master.runs[m].remote_output_path
                            /\ Join(sub.runs[k].remote_output_path,
                                    <<"status_code">>) =
                                   Join(master.runs[m].remote_output_path,
                                        <<"status_code">>)

C28_Witness ==
    /\ spc = "done"
    /\ sparams.batch_size = PyInt(1)
    /\ Len(written) = 3
    /\ BatchFromDict(files[ChunkName(2)]).runs[1].remote_output_path =
           Join(Root, IntToStr(2))
    /\ bdict.runs[3].remote_output_path = NoPath

\* the positions of the runs that the classification left with status st,
\* in batch order
WithStatus(st) ==
    SelectSeq([i \in 1..Len(sruns) |-> i], LAMBDA i : sruns[i].status = st)

\* C29: when split() filters, the selected list is the incomplete runs, then
\* the failed runs if included, then the completed runs if included, each
\* group in batch order; the max_jobs cut and the chunks follow this order.
C29_SelectedInGroupedOrder ==
    (spc = "done" /\ lookups = 1) =>
        /\ filtered =
              WithStatus("None")
                \o (IF sparams.include_failures THEN WithStatus("error") ELSE <<>>)
                \o (IF sparams.include_completed
                    THEN WithStatus("completed") ELSE <<>>)
        /\ selected = SubSeq(filtered, 1, Len(selected))
        /\ ChunkRuns(Len(written)) =
              [k \in 1..Len(selected) |-> sruns[filtered[k]]]

\* a failed first run is selected after an incomplete later run
C29_Witness ==
    /\ spc = "done"
    /\ lookups = 1
    /\ sparams.include_failures
    /\ Len(filtered) >= 2
    /\ filtered[1] > filtered[2]
    /\ sruns[filtered[2]].status = "error"
    /\ Len(written) >= 1

\* C23: runs are dispatched in batch order: whenever the executor of run j
\* has been started, the executor of every earlier run i < j of the batch
\* has been started too.
C23_DispatchedInBatchOrder ==
    \A i \in Runs : \A j \in Runs :
        (i < j /\ dispatched[j] >= 1) => dispatched[i] >= 1

\* completion order is free: a later run has returned while an earlier one
\* is still being executed
C23_Witness ==
    \E i \in Runs : \E j \in Runs :
        /\ i < j
        /\ pc[j] = "returned"
        /\ pc[i] \in ActivePcs
        /\ proc[i].st = "running"

\* C24: every rank handed to an executor, and every rank given to a
\* subprocess, lies in [0, nprocs); two subprocesses that are running at the
\* same time never have the same rank; the lock is free between the steps
\* of the rank pool.
C24_RanksExclusive ==
    /\ \A r \in Runs : rank[r] # -1 => rank[r] \in 0..(nprocs - 1)
    /\ \A r \in Runs : proc[r].st # "none" => proc[r].rank \in 0..(nprocs - 1)
    /\ \A r1 \in Runs : \A r2 \in Runs :
          (r1 # r2 /\ rank[r1] # -1) => rank[r1] # rank[r2]
    /\ \A r1 \in InFlight : \A r2 \in InFlight :
          r1 # r2 => proc[r1].rank # proc[r2].rank

\* C25: whenever the status_code file of a run exists, the subprocess of the
\* run is not running any more and everything it left in local_results_dir
\* has been synced to results/.
C25_ResultsBeforeStatus ==
    \A r \in Runs :
        status[r].exists => (proc[r].st # "running" /\ synced[r] = "all")

\* C27: the free ranks and the ranks held by executors are disjoint and
\* together are [0, nprocs), no rank is free twice, and acquire never found
\* the pool empty (which leaves the lock held).
C27_RankPoolConserved ==
    LET free == Elems(ranks)
        held == {rank[r] : r \in {x \in Runs : rank[x] # -1}}
    IN  /\ free \cap held = {}
        /\ free \cup held = 0..(nprocs - 1)
        /\ Cardinality(free) = Len(ranks)
        /\ lock = 0

\* C30: an executor raises only after a Python exception of its own (a
\* fault, or the IndexError of an empty rank pool), never because of the exit
\* code; batch() returns normally when every executor returned; and a run
\* whose executor returned has its exit code, zero or not, in status_code.
C30_NonZeroExitDoesNotRaise ==
    /\ \A r \in Runs : pc[r] = "raised" => (faulted[r] \/ lock = r)
    /\ (BatchOver /\ \A r \in Runs : pc[r] = "returned") => mainpc = "returned"
    /\ \A r \in Runs :
          pc[r] = "returned" => status[r] = File(PyStr(PyInt(proc[r].code)))

\* batch() has returned normally although a subprocess exited with 1
C30_Witness ==
    /\ mainpc = "returned"
    /\ \E r \in Runs :
          /\ proc[r].st = "exited"
          /\ proc[r].code = 1
          /\ status[r] = File(PyStr(PyInt(1)))

\* C26: under fair scheduling, with every subprocess exiting in the end,
\* batch() is left in the end (it returns or raises).
C26_BatchTerminates ==
    <>(mainpc \in {"returned", "raised", "load_raised"})

\* a 401 response whose JSON body has a message that says "expired"
ExpiredToken(resp) ==
    /\ resp.status_code = 401
    /\ resp.body.json
    /\ resp.body.has_message
    /\ Contains(resp.body.message, Expired)

\* the session call is over: it returned a response or raised
Answered == hpc \in {"done", "raised"}

\* C22: a request is sent again, once, marked X-Saturn-Retry and with the
\* session's current token, exactly when its first response was an
\* expired-token 401, its URL is under BASE_URL, a refresh token is
\* configured and the refresh succeeded; a call that ends on a non-ok
\* response raises SaturnHTTPError; no request is sent more than twice.
C22_RetriedAtMostOnce ==
    /\ hreq.sends <= 2
    /\ hreq.retry <=> hreq.sends = 2
    /\ hreq.retry <=>
          /\ ExpiredToken(hreq.first)
          /\ StartsWith(hreq.url, BaseUrl)
          /\ hset.refresh_token
          /\ hreq.refreshed \in {"token", "no_token"}
    /\ hreq.retry => hreq.token = hset.token
    /\ Answered =>
          IF Ok(hresp) THEN hpc = "done"
          ELSE hpc = "raised" /\ herr = "SaturnHTTPError"

\* C22 as amended: as above, but a call whose refresh raised ends with
\* that exception instead of SaturnHTTPError.
C22_RetriedAtMostOnceAmended ==
    /\ hreq.sends <= 2
    /\ hreq.retry <=> hreq.sends = 2
    /\ hreq.retry <=>
          /\ ExpiredToken(hreq.first)
          /\ StartsWith(hreq.url, BaseUrl)
          /\ hset.refresh_token
          /\ hreq.refreshed \in {"token", "no_token"}
    /\ hreq.retry => hreq.token = hset.token
    /\ Answered =>
          IF Ok(hresp) THEN hpc = "done"
          ELSE /\ hpc = "raised"
               /\ herr = IF hreq.refreshed \in {"raises", "malformed"}
                         THEN "other" ELSE "SaturnHTTPError"

\* a request was refreshed and sent again with the new token, the second
\* response was an expired-token 401 again, and the call raised
\* SaturnHTTPError without a third send
C22_Witness ==
    /\ hpc = "raised"
    /\ herr = "SaturnHTTPError"
    /\ hreq.retry
    /\ hreq.sends = 2
    /\ hreq.token = 1
    /\ ExpiredToken(hresp)

====
